---- MODULE Spec2Model ----
(***************************************************************************)
(* Customer-insights analytics core: feature engineering (src/src/etl.py), *)
(* cohort retention (src/src/analytics.py) and churn-model training        *)
(* (src/src/modeling.py), modelled as state machines over small tables.    *)
(*                                                                         *)
(* Tables are sequences of row records.  The operations modelled here      *)
(* (column arithmetic, groupby/nunique/pivot, a shuffled split) do not     *)
(* depend on the order of the rows, so input tables are enumerated up to   *)
(* row order: as non-decreasing sequences over an indexed list of rows.    *)
(***************************************************************************)
EXTENDS Integers, Sequences, FiniteSets, TLC

(***************************************************************************)
(* float64 values: NaN, +inf, -inf and finite rationals n/d in lowest      *)
(* terms with d > 0.  Arithmetic follows IEEE-754 for the special values;  *)
(* the finite values of the model are far from overflow and are exact.     *)
(***************************************************************************)
Abs(i) == IF i < 0 THEN -i ELSE i

Sign(i) == IF i < 0 THEN -1 ELSE IF i = 0 THEN 0 ELSE 1

RECURSIVE GCD(_, _)
GCD(a, b) == IF b = 0 THEN a ELSE GCD(b, a % b)

NaN == [k |-> "nan", n |-> 0, d |-> 1]

Inf == [k |-> "inf", n |-> 1, d |-> 1]

NegInf == [k |-> "inf", n |-> -1, d |-> 1]

Fin(n, d) ==
    LET s == Sign(d)
        g == GCD(Abs(n), Abs(d))
    IN  [k |-> "fin", n |-> (s * n) \div g, d |-> Abs(d) \div g]

F(i) == [k |-> "fin", n |-> i, d |-> 1]

IsNaN(a) == a.k = "nan"

IsInf(a) == a.k = "inf"

IsFinite(a) == a.k = "fin"

\* a < b on floats; every comparison with NaN is false
FLt(a, b) ==
    /\ ~IsNaN(a)
    /\ ~IsNaN(b)
    /\ IF IsInf(a) /\ IsInf(b) THEN a.n < b.n
       ELSE IF IsInf(a) THEN a.n < 0
       ELSE IF IsInf(b) THEN b.n > 0
       ELSE a.n * b.d < b.n * a.d

FGe(a, b) == ~IsNaN(a) /\ ~IsNaN(b) /\ ~FLt(a, b)

\* a / b as numpy computes it under errstate(divide='ignore', invalid='ignore')
FDiv(a, b) ==
    IF IsNaN(a) \/ IsNaN(b) THEN NaN
    ELSE IF IsInf(a) /\ IsInf(b) THEN NaN
    ELSE IF IsInf(a) THEN (IF b.n < 0 THEN [a EXCEPT !.n = -a.n] ELSE a)
    ELSE IF IsInf(b) THEN F(0)
    ELSE IF b.n = 0 THEN (IF a.n = 0 THEN NaN ELSE IF a.n > 0 THEN Inf ELSE NegInf)
    ELSE Fin(a.n * b.d, a.d * b.n)

FMul(a, b) ==
    IF IsNaN(a) \/ IsNaN(b) THEN NaN
    ELSE IF IsInf(a) \/ IsInf(b)
         THEN (IF a.n = 0 \/ b.n = 0 THEN NaN
               ELSE IF Sign(a.n) * Sign(b.n) > 0 THEN Inf ELSE NegInf)
    ELSE Fin(a.n * b.n, a.d * b.d)

FAdd(a, b) ==
    IF IsNaN(a) \/ IsNaN(b) THEN NaN
    ELSE IF IsInf(a) /\ IsInf(b) THEN (IF a.n = b.n THEN a ELSE NaN)
    ELSE IF IsInf(a) THEN a
    ELSE IF IsInf(b) THEN b
    ELSE Fin(a.n * b.d + b.n * a.d, a.d * b.d)

FNeg(a) == [a EXCEPT !.n = -a.n]

FSub(a, b) == FAdd(a, FNeg(b))

\* astype(int) on a finite float: truncation toward zero
Trunc(a) == Sign(a.n) * (Abs(a.n) \div a.d)

\* np.maximum: NaN propagates
FMax(a, b) == IF IsNaN(a) \/ IsNaN(b) THEN NaN ELSE IF FLt(a, b) THEN b ELSE a

\* Series.fillna(v)
FillNa(a, v) == IF IsNaN(a) THEN v ELSE a

\* Series.clip(lower=lo): NaN stays NaN
ClipLower(a, lo) == IF FLt(a, lo) THEN lo ELSE a

\* Series.max(): the largest non-NaN value of a sequence of floats, NaN if none
RECURSIVE SeriesMax(_)
SeriesMax(s) ==
    IF s = <<>> THEN NaN
    ELSE LET m == SeriesMax(Tail(s))
         IN  IF IsNaN(Head(s)) THEN m
             ELSE IF IsNaN(m) THEN Head(s)
             ELSE IF FLt(m, Head(s)) THEN Head(s) ELSE m

(***************************************************************************)
(* Dates: a day number (days since 2023-12-01) or NaT.                     *)
(***************************************************************************)
NaT == [k |-> "nat", day |-> 0]

Date(d) == [k |-> "date", day |-> d]

IsNaT(x) == x.k = "nat"

\* (today - column).dt.days: whole days, NaN where the date is NaT
DaysSince(today, x) == IF IsNaT(x) THEN NaN ELSE F(today - x.day)

\* Non-decreasing index sequences of length n over 1..k: tables up to row order
NonDecr(k, n) == {s \in [1..n -> 1..k] : \A i \in 1..n : i < n => s[i] <= s[i + 1]}

(***************************************************************************)
(* src/src/etl.py                                                          *)
(***************************************************************************)
SentinelRecency == 9999

DaysPerMonth == 30

MonthsPerYear == 12

\* the columns of REQUIRED_BASE_COLS that the derived features read
REQUIRED_BASE_COLS ==
    {"SignupDate", "LastPurchaseDate", "NumTransactions", "TotalSpend",
     "LastLoginDate", "AvgTransactionValue"}

\* _safe_div: zeros in the denominator give 0.0, everything else is a / b
SafeDiv(a, b) == IF b = F(0) THEN F(0) ELSE FDiv(a, b)

\* "Ensure required columns exist": a column absent from the file is created with
\* its default (0.0 for the three counters, NaT for the dates)
EnsureRequired(r, cols) ==
    [c \in REQUIRED_BASE_COLS |->
        IF c \in cols THEN r[c]
        ELSE IF c \in {"NumTransactions", "TotalSpend", "AvgTransactionValue"} THEN F(0)
        ELSE NaT]

\* the months of tenure without the floor at one month
MonthsNoFloor(tenure) == SafeDiv(tenure, F(DaysPerMonth))

\* months = np.maximum(_safe_div(Tenure, 30.0), 1.0)
Months(tenure) == FMax(SafeDiv(tenure, F(DaysPerMonth)), F(1))

\* df["Tenure"] = (today - SignupDate).dt.days.clip(lower=0).fillna(0)
TenureOf(today, r) == FillNa(ClipLower(DaysSince(today, r.SignupDate), F(0)), F(0))

\* df["ActivityGap"] before the fill: (today - LastLoginDate).dt.days
GapOf(today, r) == DaysSince(today, r.LastLoginDate)

\* df["ActivityGap"].fillna(df["ActivityGap"].max()).fillna(0)
ActivityGapOf(gap, colmax) == FillNa(FillNa(gap, colmax), F(0))

\* df["Recency"]: NaN -> inf, and in the guard rails inf -> 9999, clip(lower=0)
RecencyOf(today, r) ==
    LET raw == DaysSince(today, r.LastPurchaseDate)
        old == IF IsNaN(raw) THEN Inf ELSE raw
        cap == IF old = Inf THEN F(SentinelRecency) ELSE old
    IN  ClipLower(cap, F(0))

\* df["CLTV"]: (expected_txn_rate * 12) * ATV.fillna(fallback_atv), then
\* replace([inf, -inf, nan], 0), fillna(0), clip(lower=0)
CLTVOf(frequency, monetary, months, atv) ==
    LET expected_txn_rate == SafeDiv(frequency, months)
        fallback_atv == SafeDiv(monetary, frequency)
        v == FMul(FMul(expected_txn_rate, F(MonthsPerYear)), FillNa(atv, fallback_atv))
        w == IF IsInf(v) \/ IsNaN(v) THEN F(0) ELSE v
    IN  ClipLower(FillNa(w, F(0)), F(0))

\* the feature-engineering block of load_and_enrich for one row; colmax is the
\* column maximum of the unfilled ActivityGap
EnrichRow(today, r, colmax) ==
    LET frequency == FillNa(r.NumTransactions, F(0))
        monetary == FillNa(r.TotalSpend, F(0))
        tenure == TenureOf(today, r)
        months == Months(tenure)
    IN  [SignupDate |-> r.SignupDate,
         LastPurchaseDate |-> r.LastPurchaseDate,
         LastLoginDate |-> r.LastLoginDate,
         NumTransactions |-> r.NumTransactions,
         TotalSpend |-> r.TotalSpend,
         AvgTransactionValue |-> r.AvgTransactionValue,
         Recency |-> RecencyOf(today, r),
         Frequency |-> frequency,
         Monetary |-> monetary,
         Tenure |-> tenure,
         ActivityGap |-> ActivityGapOf(GapOf(today, r), colmax),
         ARPU |-> SafeDiv(monetary, months),
         CLTV |-> CLTVOf(frequency, monetary, months, r.AvgTransactionValue)]

\* load_and_enrich on the generic schema
Enrich(today, rows, cols) ==
    LET base == [i \in 1..Len(rows) |-> EnsureRequired(rows[i], cols)]
        colmax == SeriesMax([i \in 1..Len(rows) |-> GapOf(today, base[i])])
    IN  [i \in 1..Len(rows) |-> EnrichRow(today, base[i], colmax)]


\* the telco adapter applies to a file with these two columns
TelcoSchema(cols) == {"customerID", "tenure"} \subseteq cols

\* a label mapping that takes every value but "No" for churn
ChurnFlagLax(v) == IF v = "No" THEN 0 ELSE 1

\* df["Churn"].map({"Yes": 1, "No": 0}).fillna(0).astype(int)
ChurnFlag(v) == IF v = "Yes" THEN 1 ELSE 0

\* anchor - to_timedelta((Tenure.fillna(0) * 30).astype(int), unit="D")
TelcoSignup(t, r) == Date(t - Trunc(FMul(FillNa(r.tenure, F(0)), F(DaysPerMonth))))

\* the last purchase of a churned record, whatever the label column
TelcoLastPurchaseChurned(t, r, cols) ==
    LET months == FMax(FSub(FillNa(r.tenure, F(0)), F(1)), F(0))
    IN  Date(TelcoSignup(t, r).day + (months.n * DaysPerMonth) \div months.d)

\* LastPurchaseDate: SignupDate + max(Tenure - 1, 0) * 30 days where Churn == 1,
\* the anchor elsewhere and when the file has no Churn column
TelcoLastPurchase(t, r, cols) ==
    IF "Churn" \in cols /\ ChurnFlag(r.Churn) = 1
    THEN LET months == FMax(FSub(FillNa(r.tenure, F(0)), F(1)), F(0))
         IN  Date(TelcoSignup(t, r).day + (months.n * DaysPerMonth) \div months.d)
    ELSE Date(t)

\* the telco adapter for one row: the generic columns it synthesizes
TelcoAdapt(t, r, cols) ==
    LET transactions == ClipLower(FillNa(r.tenure, F(0)), F(0))
        spend == IF "TotalCharges" \in cols THEN FillNa(r.TotalCharges, F(0)) ELSE F(0)
    IN  [SignupDate |-> TelcoSignup(t, r),
         LastPurchaseDate |-> TelcoLastPurchase(t, r, cols),
         LastLoginDate |-> TelcoLastPurchase(t, r, cols),
         NumTransactions |-> transactions,
         TotalSpend |-> spend,
         AvgTransactionValue |->
             IF "MonthlyCharges" \in cols THEN FillNa(r.MonthlyCharges, F(0))
             ELSE SafeDiv(spend, transactions)]

\* the generic columns the table has after the adapter
TelcoAdaptedCols(cols) ==
    REQUIRED_BASE_COLS \ (IF "TotalCharges" \in cols THEN {} ELSE {"TotalSpend"})

\* load_and_enrich on the telco schema: the adapter, the generic pipeline, and the
\* Churn column kept as mapped
EnrichTelco(t, rows, cols) ==
    LET adapted == [i \in 1..Len(rows) |-> TelcoAdapt(t, rows[i], cols)]
        generic == Enrich(t, adapted, TelcoAdaptedCols(cols))
    IN  [i \in 1..Len(rows) |->
            IF "Churn" \in cols THEN generic[i] @@ [Churn |-> ChurnFlag(rows[i].Churn)]
            ELSE generic[i]]


(***************************************************************************)
(* src/src/analytics.py                                                    *)
(***************************************************************************)
Decimals == 3

NaTMonth == [k |-> "nat", y |-> 0, m |-> 0]

IsLeap(y) == (y % 4 = 0 /\ y % 100 # 0) \/ y % 400 = 0

DaysInMonth(y, m) ==
    IF m = 2 THEN (IF IsLeap(y) THEN 29 ELSE 28)
    ELSE IF m \in {4, 6, 9, 11} THEN 30 ELSE 31

\* the calendar month holding the d-th day (d >= 0) counted from the first of month m of year y
RECURSIVE MonthFrom(_, _, _)
MonthFrom(y, m, d) ==
    IF d < DaysInMonth(y, m) THEN [k |-> "month", y |-> y, m |-> m]
    ELSE IF m = 12 THEN MonthFrom(y + 1, 1, d - DaysInMonth(y, m))
    ELSE MonthFrom(y, m + 1, d - DaysInMonth(y, m))

\* Series.dt.to_period("M").dt.to_timestamp(): the month of a date, NaT for NaT
ToMonth(x) == IF IsNaT(x) THEN NaTMonth ELSE MonthFrom(2023, 12, x.day)

\* work: the three columns plus cohort_month and active_month
CohortWork(df) ==
    [i \in 1..Len(df) |->
        [CustomerID |-> df[i].CustomerID,
         cohort_month |-> ToMonth(df[i].SignupDate),
         active_month |-> ToMonth(df[i].LastPurchaseDate)]]

\* the keys of work.groupby(["cohort_month", "active_month"]): rows with a NaT key are dropped
GroupKeys(work) ==
    {<<work[i].cohort_month, work[i].active_month>> :
        i \in {j \in 1..Len(work) :
                 work[j].cohort_month # NaTMonth /\ work[j].active_month # NaTMonth}}

\* ["CustomerID"].nunique() of one group
NUnique(work, key) ==
    Cardinality({work[i].CustomerID :
        i \in {j \in 1..Len(work) : <<work[j].cohort_month, work[j].active_month>> = key}})

\* cohort_data["period"]: year difference * 12 + month difference
Period(key) == (key[2].y - key[1].y) * 12 + (key[2].m - key[1].m)

\* the sum of a function of keys over a set of keys (aggfunc="sum", groupby.sum)
RECURSIVE SumOver(_, _)
SumOver(work, keys) ==
    IF keys = {} THEN 0
    ELSE LET key == CHOOSE x \in keys : TRUE
         IN  NUnique(work, key) + SumOver(work, keys \ {key})

\* cohort_size: for the cohorts that have a period-0 group, the size of that group
CohortSizeIndex(keys) == {key[1] : key \in {x \in keys : x[1] = x[2]}}

CohortSize(work, keys, c) == SumOver(work, {x \in keys : x[1] = c /\ x[2] = c})

\* pivot_table(index="cohort_month", columns="period", aggfunc="sum").fillna(0)
Pivot(work, keys, c, p) ==
    LET cell == {x \in keys : x[1] = c /\ Period(x) = p}
    IN  IF cell = {} THEN 0 ELSE SumOver(work, cell)

\* the nearest integer to n / d for n >= 0, d > 0, halves to the even neighbour
RoundHalfEven(n, d) ==
    LET q == n \div d
        r == n % d
    IN  IF 2 * r < d THEN q
        ELSE IF 2 * r > d THEN q + 1
        ELSE IF q % 2 = 0 THEN q ELSE q + 1

\* DataFrame.round(3) on one non-negative cell
Round3(a) ==
    IF ~IsFinite(a) THEN a
    ELSE Fin(RoundHalfEven(a.n * (10 ^ Decimals), a.d), 10 ^ Decimals)

\* the division without the trailing fillna(0)
RetentionCellNoFill(work, keys, c, p) ==
    LET size == IF c \in CohortSizeIndex(keys) THEN F(CohortSize(work, keys, c)) ELSE NaN
    IN  FDiv(F(Pivot(work, keys, c, p)), size)

\* pivot.div(cohort_size, axis=0).fillna(0): a cohort missing from cohort_size
\* divides by NaN
RetentionCell(work, keys, c, p) ==
    LET size == IF c \in CohortSizeIndex(keys) THEN F(CohortSize(work, keys, c)) ELSE NaN
    IN  FillNa(FDiv(F(Pivot(work, keys, c, p)), size), F(0))

\* f"Month{int(c)}"
MonthLabel(p) == <<"Month", p>>

\* monthly_cohort_retention(df)
MonthlyCohortRetention(df) ==
    LET work == CohortWork(df)
        keys == GroupKeys(work)
        index == {key[1] : key \in keys}
        periods == {Period(key) : key \in keys}
    IN  [index |-> index,
         columns |-> {MonthLabel(p) : p \in periods},
         cell |-> [c \in index |->
                     [l \in {MonthLabel(p) : p \in periods} |->
                         Round3(RetentionCell(work, keys, c, l[2]))]]]

(***************************************************************************)
(* src/src/modeling.py.  Of the seven FEATURES_DEFAULT columns only        *)
(* Recency is carried by the rows of the model: the other six are read by  *)
(* the classifier alone, whose predicted probabilities are a free choice.  *)
(***************************************************************************)
WeakLabelDays == 180

TestSizeInverse == 4

BackgroundCap == 500

None == [none |-> TRUE]

\* the set of values of a sequence (Series.unique())
Values(s) == {s[i] : i \in 1..Len(s)}

\* the number of positions of s holding v
CountOf(s, v) == Cardinality({i \in 1..Len(s) : s[i] = v})

\* the elements of s at the positions in T, in table order
RECURSIVE Take(_, _, _)
Take(s, T, i) ==
    IF i > Len(s) THEN <<>>
    ELSE (IF i \in T THEN <<s[i]>> ELSE <<>>) \o Take(s, T, i + 1)

\* a set of integers as an ascending sequence
RECURSIVE Sorted(_)
Sorted(S) ==
    IF S = {} THEN <<>>
    ELSE LET lo == CHOOSE x \in S : \A z \in S : x <= z
         IN  <<lo>> \o Sorted(S \ {lo})

\* the weak label with a strict comparison
WeakLabelStrict(r) == IF FLt(F(WeakLabelDays), r.Recency) THEN 1 ELSE 0

\* (work["Recency"] >= 180).astype(int)
WeakLabel(r) == IF FGe(r.Recency, F(WeakLabelDays)) THEN 1 ELSE 0

\* y = work[label_col].astype(int) raises on a missing or infinite label
CastRaises(table) ==
    /\ "Churn" \in table.columns
    /\ \E i \in 1..Len(table.rows) : ~IsFinite(table.rows[i].Churn)

\* _prepare_supervised: y, from the label column if the table has one, else the weak label
LabelsOf(table) ==
    [i \in 1..Len(table.rows) |->
        IF "Churn" \in table.columns THEN Trunc(table.rows[i].Churn)
        ELSE WeakLabel(table.rows[i])]

\* _prepare_supervised: X = work[FEATURES_DEFAULT].fillna(0.0)
FeaturesOf(table) ==
    [i \in 1..Len(table.rows) |-> [Recency |-> FillNa(table.rows[i].Recency, F(0))]]

\* the validation with the threshold off by one
TooFewClassesLax(labels) == Cardinality(Values(labels)) < 1

\* y.nunique() < 2
TooFewClasses(labels) == Cardinality(Values(labels)) < 2

\* train_test_split: n_test = ceil(0.25 * n), n_train = n - n_test
NTest(n) == (n + TestSizeInverse - 1) \div TestSizeInverse

NTrain(n) == n - NTest(n)

\* StratifiedShuffleSplit refuses a class with one member and partitions smaller
\* than the number of classes
StratifyRaises(labels) ==
    \/ \E c \in Values(labels) : CountOf(labels, c) < 2
    \/ NTrain(Len(labels)) < Cardinality(Values(labels))
    \/ NTest(Len(labels)) < Cardinality(Values(labels))

RECURSIVE SumFloors(_, _)
SumFloors(labels, classes) ==
    IF classes = {} THEN 0
    ELSE LET c == CHOOSE x \in classes : TRUE
         IN  (NTrain(Len(labels)) * CountOf(labels, c)) \div Len(labels)
                 + SumFloors(labels, classes \ {c})

\* _approximate_mode: each class gets the floor of its share of the training rows;
\* the rows left over go to the classes with the largest remainders, ties at random
TrainAllocations(labels) ==
    LET n == Len(labels)
        classes == Values(labels)
        rem(c) == (NTrain(n) * CountOf(labels, c)) % n
        need == NTrain(n) - SumFloors(labels, classes)
    IN  {[c \in classes |->
            (NTrain(n) * CountOf(labels, c)) \div n + (IF c \in E THEN 1 ELSE 0)] :
         E \in {D \in SUBSET classes :
                  /\ Cardinality(D) = need
                  /\ \A a \in D : \A b \in classes \ D : rem(a) >= rem(b)}}

\* the test index sets a stratified split can return
StratifiedTests(labels) ==
    {T \in SUBSET (1..Len(labels)) :
        \E alloc \in TrainAllocations(labels) :
            \A c \in Values(labels) :
                Cardinality({i \in T : labels[i] = c}) = CountOf(labels, c) - alloc[c]}

\* the test index sets a plain shuffled split can return
ShuffledTests(labels) ==
    {T \in SUBSET (1..Len(labels)) : Cardinality(T) = NTest(Len(labels))}

\* the four partitions for a test index set
Partition(features, labels, T) ==
    [X_train |-> Take(features, (1..Len(labels)) \ T, 1),
     y_train |-> Take(labels, (1..Len(labels)) \ T, 1),
     X_test |-> Take(features, T, 1),
     y_test |-> Take(labels, T, 1)]

\* chosen: "auto" is xgboost if the import succeeded, else logistic
Resolve(kind, xgb) ==
    IF kind = "auto" THEN (IF xgb THEN "xgboost" ELSE "logistic") ELSE kind

\* the classifier built for the chosen kind; xgb is None without the package
ConstructRaises(kind, xgb) == kind = "xgboost" /\ ~xgb

Construct(kind) == IF kind = "xgboost" THEN "XGBClassifier" ELSE "LogisticRegression"

\* model.fit: LogisticRegression needs two classes, XGBClassifier needs the
\* classes to be 0..k-1
FitRaises(class, labels) ==
    \/ class = "LogisticRegression" /\ Cardinality(Values(labels)) < 2
    \/ class = "XGBClassifier" /\ Values(labels) # 0..(Cardinality(Values(labels)) - 1)

\* preds = (proba >= 0.5).astype(int)
Preds(p) == [i \in 1..Len(p) |-> IF FGe(p[i], Fin(1, 2)) THEN 1 ELSE 0]

\* roc_auc_score on two classes: the share of (positive, negative) pairs ranked
\* right, ties counting half
RocAuc(labels, p) ==
    LET pos == {i \in 1..Len(labels) : labels[i] = 1}
        neg == {i \in 1..Len(labels) : labels[i] # 1}
        won == Cardinality({q \in pos \X neg : FLt(p[q[2]], p[q[1]])})
        tied == Cardinality({q \in pos \X neg : p[q[1]] = p[q[2]]})
    IN  Fin(2 * won + tied, 2 * Cardinality(pos) * Cardinality(neg))

\* accuracy_score
Accuracy(labels, predicted) ==
    Fin(Cardinality({i \in 1..Len(labels) : labels[i] = predicted[i]}), Len(labels))

\* confusion_matrix(...).tolist(): rows are true labels, columns predicted labels,
\* over the sorted labels that occur in either
ConfusionMatrix(labels, predicted) ==
    LET ls == Sorted(Values(labels) \cup Values(predicted))
    IN  [a \in 1..Len(ls) |->
            [b \in 1..Len(ls) |->
                Cardinality({i \in 1..Len(labels) :
                    labels[i] = ls[a] /\ predicted[i] = ls[b]})]]

\* the metrics record; auc is passed in because roc_auc_score may be undefined
MetricsOf(auc, labels, p, kind) ==
    [auc |-> auc,
     accuracy |-> Accuracy(labels, Preds(p)),
     confusion_matrix |-> ConfusionMatrix(labels, Preds(p)),
     model_type |-> kind]

\* the SHAP background: X_train, sampled down to 500 rows
BackgroundSize(n) == IF n > BackgroundCap THEN BackgroundCap ELSE n

(***************************************************************************)
(* src/src/segmentation.py                                                 *)
(***************************************************************************)
\* rank -> label, ranks from 0
SEGMENT_LABELS == <<"Champions", "Loyal", "At Risk", "Hibernating">>

\* the columns of the scaled matrix and of the centroids table
RFM == {"R", "F", "M"}

Origin == [c \in RFM |-> F(0)]

\* features = work[["Recency", "Frequency", "Monetary"]].fillna(0.0)
RfmFeatures(rows) ==
    [i \in 1..Len(rows) |->
        [R |-> FillNa(rows[i].Recency, F(0)),
         F |-> FillNa(rows[i].Frequency, F(0)),
         M |-> FillNa(rows[i].Monetary, F(0))]]

RECURSIVE FSum(_)
FSum(s) == IF s = <<>> THEN F(0) ELSE FAdd(Head(s), FSum(Tail(s)))

Mean(s) == FDiv(FSum(s), F(Len(s)))

\* np.var: the population variance
Variance(s) ==
    LET m == Mean(s)
    IN  Mean([i \in 1..Len(s) |-> FMul(FSub(s[i], m), FSub(s[i], m))])

IsSquare(i) == \E r \in 0..i : r * r = i

IntSqrt(i) == CHOOSE r \in 0..i : r * r = i

\* a finite non-negative value has an exact root when both terms are squares
HasRoot(a) == IsSquare(a.n) /\ IsSquare(a.d)

Sqrt(a) == Fin(IntSqrt(a.n), IntSqrt(a.d))

\* StandardScaler.scale_: the standard deviation, 1.0 for a constant column
ScaleOf(s) == IF Variance(s) = F(0) THEN F(1) ELSE Sqrt(Variance(s))

Column(feats, c) == [i \in 1..Len(feats) |-> feats[i][c]]

\* StandardScaler.fit_transform
FitTransform(feats) ==
    LET mean_ == [c \in RFM |-> Mean(Column(feats, c))]
        scale_ == [c \in RFM |-> ScaleOf(Column(feats, c))]
    IN  [i \in 1..Len(feats) |->
            [c \in RFM |-> FDiv(FSub(feats[i][c], mean_[c]), scale_[c])]]

\* check_array refuses an empty matrix and infinite entries
ScalerRaises(feats) ==
    \/ Len(feats) = 0
    \/ \E i \in 1..Len(feats) : \E c \in RFM : ~IsFinite(feats[i][c])

\* squared Euclidean distance
Dist2(p, q) ==
    FAdd(FMul(FSub(p.R, q.R), FSub(p.R, q.R)),
         FAdd(FMul(FSub(p.F, q.F), FSub(p.F, q.F)),
              FMul(FSub(p.M, q.M), FSub(p.M, q.M))))

\* the squared distance of point i to the closest of the rows already picked
ClosestDist2(Z, picked, i) ==
    LET ds == {Dist2(Z[i], Z[picked[j]]) : j \in 1..Len(picked)}
    IN  CHOOSE d \in ds : \A e \in ds : ~FLt(e, d)

\* k-means++ seeding: the first centre is any row, each later one a row drawn
\* with probability proportional to its squared distance to the centres picked so
\* far; once every row coincides with a centre the draw lands on the first row
RECURSIVE KMeansPlusPlus(_, _, _)
KMeansPlusPlus(Z, k, picked) ==
    IF Len(picked) = k THEN {picked}
    ELSE LET n == Len(Z)
             far == {i \in 1..n : picked # <<>> /\ FLt(F(0), ClosestDist2(Z, picked, i))}
             next == IF picked = <<>> THEN 1..n ELSE IF far = {} THEN {1} ELSE far
         IN  UNION {KMeansPlusPlus(Z, k, Append(picked, i)) : i \in next}

\* the label of a point: the closest centre, the lowest index among equals
Nearest(z, centers) ==
    LET d == [c \in DOMAIN centers |-> Dist2(z, centers[c])]
    IN  CHOOSE c \in DOMAIN centers :
            \A e \in DOMAIN centers : ~FLt(d[e], d[c]) /\ (d[e] = d[c] => c <= e)

Assign(Z, centers) == [i \in 1..Len(Z) |-> Nearest(Z[i], centers)]

\* the sum of the points of a set of rows
RECURSIVE VecSum(_, _)
VecSum(Z, S) ==
    IF S = {} THEN Origin
    ELSE LET i == CHOOSE x \in S : TRUE
             rest == VecSum(Z, S \ {i})
         IN  [c \in RFM |-> FAdd(Z[i][c], rest[c])]

\* the rows given to the empty clusters: the m rows farthest from their own centre,
\* farthest first; d is the squared distance of each row to its centre
RECURSIVE Farthest(_, _)
Farthest(d, m) ==
    IF m = 0 THEN <<>>
    ELSE LET before == Farthest(d, m - 1)
             left == (DOMAIN d) \ {before[j] : j \in 1..Len(before)}
             i == CHOOSE x \in left :
                    \A z \in left : ~FLt(d[x], d[z]) /\ (d[z] = d[x] => z <= x)
         IN  Append(before, i)

\* one update of the centres: the mean of each cluster's rows; an empty cluster is
\* relocated onto a far row, which leaves its old cluster; a cluster left without
\* weight keeps its emptied sum
UpdateCenters(Z, centers, labels) ==
    LET ids == DOMAIN centers
        empty == {c \in ids : \A i \in 1..Len(Z) : labels[i] # c}
        order == Sorted(empty)
        far == Farthest([i \in 1..Len(Z) |-> Dist2(Z[i], centers[labels[i]])],
                        Cardinality(empty))
        moved == {far[j] : j \in 1..Len(far)}
        members(c) ==
            IF c \in empty THEN {far[j] : j \in {x \in 1..Len(far) : order[x] = c}}
            ELSE {i \in 1..Len(Z) : labels[i] = c} \ moved
    IN  [c \in ids |->
            LET rows == members(c)
                total == VecSum(Z, rows)
            IN  IF rows = {} THEN Origin
                ELSE [f \in RFM |-> FDiv(total[f], F(Cardinality(rows)))]]

\* the total squared shift of the centres
RECURSIVE ShiftTot(_, _, _)
ShiftTot(old, new, ids) ==
    IF ids = {} THEN F(0)
    ELSE LET c == CHOOSE x \in ids : TRUE
         IN  FAdd(Dist2(old[c], new[c]), ShiftTot(old, new, ids \ {c}))

\* tol = 1e-4 * the mean of the column variances of the scaled matrix
Tol(Z) ==
    FMul(Fin(1, 10000),
         FDiv(FAdd(Variance(Column(Z, "R")),
                   FAdd(Variance(Column(Z, "F")), Variance(Column(Z, "M")))),
              F(Cardinality(RFM))))

\* KMeans(max_iter=300), the default
MaxIter == 300

IndexOf(hist, centers) == CHOOSE j \in 1..Len(hist) : hist[j] = centers

\* Lloyd's iterations; hist holds the centres each iteration started from.  The
\* loop ends when the labels repeat, when the centres stop moving or after MaxIter
\* iterations; in the last two cases the labels are taken once more from the final
\* centres.  An iteration that starts from centres seen before repeats the run
\* from there up to MaxIter, so the final centres are read off the history.
RECURSIVE Lloyd(_, _, _)
Lloyd(Z, hist, labels_old) ==
    LET i == Len(hist)
        centers == hist[i]
        labels == Assign(Z, centers)
        new == UpdateCenters(Z, centers, labels)
        j == IndexOf(hist, centers)
        final == hist[j + ((MaxIter + 1 - j) % (i - j))]
    IN  IF labels = labels_old THEN [labels |-> labels, cluster_centers |-> new]
        ELSE IF ~FLt(Tol(Z), ShiftTot(centers, new, DOMAIN centers)) \/ i = MaxIter
        THEN [labels |-> Assign(Z, new), cluster_centers |-> new]
        ELSE IF j < i THEN [labels |-> Assign(Z, final), cluster_centers |-> final]
        ELSE Lloyd(Z, Append(hist, new), labels)

\* KMeans refuses fewer rows than clusters
KMeansRaises(Z, k) == Len(Z) < k

\* KMeans(n_clusters=k, n_init="auto").fit_predict: one run from each seeding the
\* generator can give
KMeansFits(Z, k) ==
    {Lloyd(Z, <<[c \in 0..(k - 1) |-> Z[init[c + 1]]]>>, [i \in 1..Len(Z) |-> -1]) :
        init \in KMeansPlusPlus(Z, k, <<>>)}

\* centroids["score"] = -R + F + M
Score(center) == FAdd(FNeg(center.R), FAdd(center.F, center.M))

\* rank(ascending=False, method="min"): equal scores share the lowest rank
RankMin(centers, c) ==
    1 + Cardinality({e \in DOMAIN centers : FLt(Score(centers[c]), Score(centers[e]))})

\* rank(ascending=False, method="first"): equal scores ranked in index order
RankFirst(centers, c) ==
    1 + Cardinality({e \in DOMAIN centers : FLt(Score(centers[c]), Score(centers[e]))})
      + Cardinality({e \in DOMAIN centers : e < c /\ Score(centers[e]) = Score(centers[c])})

\* id_to_rank
IdToRank(centers) == [c \in DOMAIN centers |-> RankFirst(centers, c) - 1]

\* SEGMENT_LABELS.get(rank, f"Segment-{rank}")
LabelOfRank(rank) ==
    IF rank + 1 \in DOMAIN SEGMENT_LABELS THEN SEGMENT_LABELS[rank + 1]
    ELSE "Segment-" \o ToString(rank)

\* label_map: inv_map keeps the last cluster of a rank; for rank in range(k):
\* cid = inv_map.get(rank, rank); label_map[cid] = the label of the rank
LabelMap(centers, k) ==
    LET id_to_rank == IdToRank(centers)
        has(rank) == \E c \in DOMAIN centers : id_to_rank[c] = rank
        cid(rank) == IF has(rank)
                     THEN CHOOSE c \in DOMAIN centers :
                            /\ id_to_rank[c] = rank
                            /\ \A e \in DOMAIN centers : id_to_rank[e] = rank => e <= c
                     ELSE rank
        cids == {cid(rank) : rank \in 0..(k - 1)}
    IN  [c \in cids |->
            LabelOfRank(CHOOSE rank \in 0..(k - 1) :
                /\ cid(rank) = c
                /\ \A later \in 0..(k - 1) : cid(later) = c => later <= rank)]

\* work["SegmentID"], work["Segment"]: a SegmentID outside the map gives a null
SegmentTable(rows, labels, label_map) ==
    [i \in 1..Len(rows) |->
        [row |-> rows[i],
         SegmentID |-> labels[i],
         Segment |-> IF labels[i] \in DOMAIN label_map THEN label_map[labels[i]] ELSE "NaN"]]

(***************************************************************************)
(* State.  One group of variables per operation; each specification below  *)
(* runs one operation and leaves the other groups at their initial values. *)
(***************************************************************************)
VARIABLES
    raw,          \* load_and_enrich: the rows of the file read by pd.read_csv
    rawCols,      \* load_and_enrich: the columns the file has
    today,        \* load_and_enrich: the evaluation instant (a day number)
    enriched,     \* load_and_enrich: the returned table
    etl_pc,       \* load_and_enrich: "idle", "loaded" before the call, "done" after
    cohort_df,    \* monthly_cohort_retention: the table passed in
    retention,    \* monthly_cohort_retention: the returned matrix
    cohort_pc,    \* monthly_cohort_retention: "idle", "ready" before the call, "done" after
    installed,    \* the optional packages of the runtime: a subset of {"shap", "xgboost"}
    has_xgb,      \* modeling._HAS_XGB
    df,           \* train_churn_model: the caller's table, [columns, rows]
    model_type,   \* train_churn_model: argument
    random_state, \* train_churn_model: argument
    pc,           \* the position of the call: "import", "call", "validate", "split",
                  \* "choose", "fit", "evaluate", "explain", "returned", "raised"
    X,            \* train_churn_model: features
    y,            \* train_churn_model: labels
    splits,       \* the calls of train_test_split made so far
    part,         \* X_train, y_train, X_test, y_test
    chosen,       \* train_churn_model: the model kind chosen
    model,        \* train_churn_model: the classifier, [class, fitted]
    proba,        \* train_churn_model: predicted probabilities of the test rows
    metrics,      \* train_churn_model: the metrics record
    log,          \* the lines printed
    bundle,       \* the value returned to the caller
    error,        \* the exception raised to the caller, [type, at]
    seg_df,       \* segment_rfm: the rows of the caller's table
    seg_k,        \* segment_rfm: argument k
    seg_seed,     \* segment_rfm: argument random_state
    seg_pc,       \* segment_rfm: "idle", "call", "scaled", "fitted", "returned", "raised"
    scaled,       \* segment_rfm: X, the scaled matrix
    km,           \* segment_rfm: the fitted KMeans, [labels, cluster_centers]
    label_map,    \* segment_rfm: SegmentID -> Segment
    seg_work,     \* segment_rfm: the returned table
    seg_error,    \* segment_rfm: the exception raised to the caller
    pred_model,   \* predict_churn_probability: the fitted model, features -> probability
    pred_df,      \* predict_churn_probability: the caller's table, [columns, rows]
    pred_pc,      \* predict_churn_probability: "idle", "call", "returned", "raised"
    df_out,       \* predict_churn_probability: the returned table
    pred_error,   \* predict_churn_probability: the exception raised to the caller
    xgb_available,   \* dashboard: modeling._HAS_XGB in the server process
    session_state,   \* dashboard: st.session_state["model_type"], "" while unset
    df_f,            \* dashboard: the filtered table of the current run, "" before any
    models_cache,    \* dashboard: the st.cache_data store of get_models, by table
    shown,           \* dashboard: the train bundle the tabs of the current run render
    dash_error,      \* dashboard: the exception that ended the current run
    today_arg,       \* repeated load_and_enrich: the today argument, None when omitted
    utcnow,          \* repeated load_and_enrich: the day datetime.utcnow() returns
    calls,           \* repeated load_and_enrich: the number of calls made
    first_out,       \* repeated load_and_enrich: the table the first call returned
    second_out       \* repeated load_and_enrich: the table the second call returned

etlVars == <<raw, rawCols, today, enriched, etl_pc>>

cohortVars == <<cohort_df, retention, cohort_pc>>

trainVars ==
    <<installed, has_xgb, df, model_type, random_state, pc, X, y, splits, part, chosen,
      model, proba, metrics, log, bundle, error>>

segVars == <<seg_df, seg_k, seg_seed, seg_pc, scaled, km, label_map, seg_work, seg_error>>

predictVars == <<pred_model, pred_df, pred_pc, df_out, pred_error>>

dashVars == <<xgb_available, session_state, df_f, models_cache, shown, dash_error>>

repeatVars == <<today_arg, utcnow, calls, first_out, second_out>>

laterVars == <<segVars, predictVars, dashVars, repeatVars>>

vars == <<etlVars, cohortVars, trainVars, laterVars>>

EtlIdle ==
    /\ raw = <<>>
    /\ rawCols = {}
    /\ today = 0
    /\ enriched = <<>>
    /\ etl_pc = "idle"

NoMatrix == [index |-> {}, columns |-> {}, cell |-> <<>>]

CohortIdle ==
    /\ cohort_df = <<>>
    /\ retention = NoMatrix
    /\ cohort_pc = "idle"

NoTable == [columns |-> {}, rows |-> <<>>]

\* the locals of train_churn_model before the call assigns them
TrainLocalsUnset ==
    /\ has_xgb = FALSE
    /\ X = <<>>
    /\ y = <<>>
    /\ splits = <<>>
    /\ part = None
    /\ chosen = ""
    /\ model = None
    /\ proba = <<>>
    /\ metrics = None
    /\ log = <<>>
    /\ bundle = None
    /\ error = None

TrainIdle ==
    /\ installed = {}
    /\ df = NoTable
    /\ model_type = ""
    /\ random_state = 0
    /\ pc = "idle"
    /\ TrainLocalsUnset

SegIdle ==
    /\ seg_df = <<>>
    /\ seg_k = 0
    /\ seg_seed = 0
    /\ seg_pc = "idle"
    /\ scaled = <<>>
    /\ km = None
    /\ label_map = <<>>
    /\ seg_work = <<>>
    /\ seg_error = None

PredictIdle ==
    /\ pred_model = <<>>
    /\ pred_df = NoTable
    /\ pred_pc = "idle"
    /\ df_out = NoTable
    /\ pred_error = None

DashIdle ==
    /\ xgb_available = FALSE
    /\ session_state = ""
    /\ df_f = ""
    /\ models_cache = <<>>
    /\ shown = None
    /\ dash_error = None

RepeatIdle ==
    /\ today_arg = None
    /\ utcnow = 0
    /\ calls = 0
    /\ first_out = <<>>
    /\ second_out = <<>>

LaterIdle == SegIdle /\ PredictIdle /\ DashIdle /\ RepeatIdle

(***************************************************************************)
(* Inputs of load_and_enrich.                                              *)
(***************************************************************************)
MaxEtlRows == 1

SignupDates == <<NaT, Date(0), Date(45)>>

PurchaseDates == <<NaT, Date(45)>>

LoginDates == <<NaT, Date(45)>>

TransactionCounts == <<NaN, F(-2), F(0), F(3)>>

Spends == <<NaN, F(-50), F(90)>>

TransactionValues == <<NaN, F(30), Inf>>

Todays == {31, 91}

\* the file has every column, lacks AvgTransactionValue, or has none of them
RawColSets == {REQUIRED_BASE_COLS, REQUIRED_BASE_COLS \ {"AvgTransactionValue"}, {}}

NumRawRows ==
    Len(SignupDates) * Len(PurchaseDates) * Len(LoginDates)
        * Len(TransactionCounts) * Len(Spends) * Len(TransactionValues)

\* the k-th raw row, k in 1..NumRawRows (mixed-radix decoding of k - 1)
RawRow(k) ==
    LET i1 == k - 1
        i2 == i1 \div Len(SignupDates)
        i3 == i2 \div Len(PurchaseDates)
        i4 == i3 \div Len(LoginDates)
        i5 == i4 \div Len(TransactionCounts)
        i6 == i5 \div Len(Spends)
    IN  [SignupDate |-> SignupDates[(i1 % Len(SignupDates)) + 1],
         LastPurchaseDate |-> PurchaseDates[(i2 % Len(PurchaseDates)) + 1],
         LastLoginDate |-> LoginDates[(i3 % Len(LoginDates)) + 1],
         NumTransactions |-> TransactionCounts[(i4 % Len(TransactionCounts)) + 1],
         TotalSpend |-> Spends[(i5 % Len(Spends)) + 1],
         AvgTransactionValue |-> TransactionValues[(i6 % Len(TransactionValues)) + 1]]

\* a cell of a column the file lacks reads as missing
Blank(r, cols) ==
    \A c \in REQUIRED_BASE_COLS \ cols :
        r[c] = IF c \in {"SignupDate", "LastPurchaseDate", "LastLoginDate"} THEN NaT ELSE NaN

InitEtl ==
    /\ rawCols \in RawColSets
    /\ \E n \in 0..MaxEtlRows : \E s \in NonDecr(NumRawRows, n) :
        /\ \A i \in 1..n : Blank(RawRow(s[i]), rawCols)
        /\ raw = [i \in 1..n |-> RawRow(s[i])]
    /\ today = 0
    /\ enriched = <<>>
    /\ etl_pc = "loaded"
    /\ CohortIdle
    /\ TrainIdle
    /\ LaterIdle

\* load_and_enrich(path, today)
LoadAndEnrich ==
    /\ etl_pc = "loaded"
    /\ \E t \in Todays :
        /\ today' = t
        /\ enriched' = Enrich(t, raw, rawCols)
    /\ etl_pc' = "done"
    /\ UNCHANGED <<raw, rawCols, cohortVars, trainVars>>
    /\ UNCHANGED laterVars

NextEtl == LoadAndEnrich

SpecEtl == InitEtl /\ [][NextEtl]_vars

DerivedFeatures == {"Recency", "Frequency", "Monetary", "Tenure", "ActivityGap", "ARPU", "CLTV"}

\* C1: every record returned by load_and_enrich has the seven derived features
\* finite and >= 0
C1_DerivedFeaturesNonNegative ==
    etl_pc = "done" =>
        \A i \in 1..Len(enriched) : \A f \in DerivedFeatures :
            IsFinite(enriched[i][f]) /\ FGe(enriched[i][f], F(0))

\* C2 as stated: a record with Tenure = 0 and Frequency = 0 has ARPU = 0 and CLTV = 0
C2_ZeroTenureZeroArpu ==
    etl_pc = "done" =>
        \A i \in 1..Len(enriched) :
            (enriched[i].Tenure = F(0) /\ enriched[i].Frequency = F(0))
                => (enriched[i].ARPU = F(0) /\ enriched[i].CLTV = F(0))

\* C2 amended: a record with Tenure = 0 and Frequency = 0 has ARPU = Monetary (the
\* denominator is floored at one month), never NaN, and CLTV = 0
C2_ZeroTenureArpuIsMonetary ==
    etl_pc = "done" =>
        \A i \in 1..Len(enriched) :
            (enriched[i].Tenure = F(0) /\ enriched[i].Frequency = F(0))
                => /\ enriched[i].ARPU = enriched[i].Monetary
                   /\ ~IsNaN(enriched[i].ARPU)
                   /\ enriched[i].CLTV = F(0)

\* a record with no tenure and no transactions but money spent and an unbounded
\* average transaction value has been enriched
C2_Witness ==
    /\ etl_pc = "done"
    /\ \E i \in 1..Len(enriched) :
        /\ enriched[i].Tenure = F(0)
        /\ enriched[i].Frequency = F(0)
        /\ enriched[i].Monetary = F(90)
        /\ enriched[i].AvgTransactionValue = Inf


(***************************************************************************)
(* Inputs of monthly_cohort_retention: tables of customers who signed up   *)
(* on 2023-12-10 or 2024-01-05 and last purchased on 2023-12-25 or         *)
(* 2024-01-05, or never.                                                   *)
(***************************************************************************)
MaxCohortRows == 4

CustomerIDs == <<"c1", "c2", "c3">>

CohortSignups == <<Date(9), Date(35)>>

CohortPurchases == <<NaT, Date(24), Date(35)>>

NumCohortRows == Len(CustomerIDs) * Len(CohortSignups) * Len(CohortPurchases)

CohortRow(k) ==
    LET i1 == k - 1
        i2 == i1 \div Len(CustomerIDs)
        i3 == i2 \div Len(CohortSignups)
    IN  [CustomerID |-> CustomerIDs[(i1 % Len(CustomerIDs)) + 1],
         SignupDate |-> CohortSignups[(i2 % Len(CohortSignups)) + 1],
         LastPurchaseDate |-> CohortPurchases[(i3 % Len(CohortPurchases)) + 1]]

InitCohort ==
    /\ EtlIdle
    /\ TrainIdle
    /\ LaterIdle
    /\ \E n \in 0..MaxCohortRows : \E s \in NonDecr(NumCohortRows, n) :
        cohort_df = [i \in 1..n |-> CohortRow(s[i])]
    /\ retention = NoMatrix
    /\ cohort_pc = "ready"

\* monthly_cohort_retention(df)
CohortRetention ==
    /\ cohort_pc = "ready"
    /\ retention' = MonthlyCohortRetention(cohort_df)
    /\ cohort_pc' = "done"
    /\ UNCHANGED <<cohort_df, etlVars, trainVars>>
    /\ UNCHANGED laterVars

NextCohort == CohortRetention

SpecCohort == InitCohort /\ [][NextCohort]_vars

\* C3: every cell of the retention matrix lies in [0, 1]
C3_RetentionInUnitInterval ==
    cohort_pc = "done" =>
        \A c \in retention.index : \A l \in retention.columns :
            FGe(retention.cell[c][l], F(0)) /\ FGe(F(1), retention.cell[c][l])


\* the distinct customers of the table who signed up in month c
SignedUp(c) ==
    {cohort_df[i].CustomerID : i \in {j \in 1..Len(cohort_df) : ToMonth(cohort_df[j].SignupDate) = c}}

\* the distinct customers who signed up in month c and last purchased p months later
ActiveIn(c, p) ==
    {cohort_df[i].CustomerID :
        i \in {j \in 1..Len(cohort_df) :
                 /\ ToMonth(cohort_df[j].SignupDate) = c
                 /\ ~IsNaT(cohort_df[j].LastPurchaseDate)
                 /\ Period(<<c, ToMonth(cohort_df[j].LastPurchaseDate)>>) = p}}

\* count(c, p) / size(c) with size(c) = count(c, 0), and 0 for a cohort of size 0
ExactFraction(c, p) ==
    IF ActiveIn(c, 0) = {} THEN F(0)
    ELSE Fin(Cardinality(ActiveIn(c, p)), Cardinality(ActiveIn(c, 0)))

\* C4 as stated: every cell equals count(c, p) / size(c), 0 for a cohort of size 0
C4_CellIsExactFraction ==
    cohort_pc = "done" =>
        \A c \in retention.index : \A l \in retention.columns :
            retention.cell[c][l] = ExactFraction(c, l[2])

\* C4 amended: every cell equals count(c, p) / size(c) rounded to 3 decimals; the
\* period-0 cell is exactly 1 for a cohort of nonzero size; a cohort of size 0 has
\* 0 in every period
C4_CellIsRoundedFraction ==
    cohort_pc = "done" =>
        \A c \in retention.index : \A l \in retention.columns :
            /\ retention.cell[c][l] = Round3(ExactFraction(c, l[2]))
            /\ (ActiveIn(c, 0) # {} /\ l = MonthLabel(0)) => retention.cell[c][l] = F(1)
            /\ ActiveIn(c, 0) = {} => retention.cell[c][l] = F(0)

\* a cohort of size 3 with one customer active a month later: the cell is 0.333
C4_Witness ==
    /\ cohort_pc = "done"
    /\ \E c \in retention.index :
        /\ Cardinality(ActiveIn(c, 0)) = 3
        /\ MonthLabel(1) \in retention.columns
        /\ retention.cell[c][MonthLabel(1)] = Fin(333, 1000)

\* C5: for a cohort of N customers signed up in month M of whom A are active in
\* month M+1, retention[M]["Month1"] = A / N rounded to 3 decimals
C5_Month1IsActiveOverSignups ==
    cohort_pc = "done" =>
        \A c \in retention.index :
            MonthLabel(1) \in retention.columns =>
                retention.cell[c][MonthLabel(1)] =
                    Round3(Fin(Cardinality(ActiveIn(c, 1)), Cardinality(SignedUp(c))))


(***************************************************************************)
(* Inputs of train_churn_model: tables with a Recency column and, in some, *)
(* a Churn label column; the model kinds the dashboard offers and the one  *)
(* the interface document names; the runtime with or without the optional  *)
(* packages.                                                               *)
(***************************************************************************)
MaxTrainRows == 5

TrainRecencies == <<F(179), F(180)>>

Labels == <<NaN, F(0), Fin(1, 2), F(1)>>

ModelTypes == {"auto", "logistic", "xgboost", "gradient-boosted-tree"}

Seeds == {7, 42}

ProbaValues == {Fin(1, 4), Fin(1, 2)}

\* the k-th row of a table without a label column
UnlabelledRow(k) == [Recency |-> TrainRecencies[k]]

\* the k-th row of a table with a label column
LabelledRow(k) ==
    [Recency |-> TrainRecencies[((k - 1) % Len(TrainRecencies)) + 1],
     Churn |-> Labels[((k - 1) \div Len(TrainRecencies)) + 1]]

InitTrain ==
    /\ EtlIdle
    /\ CohortIdle
    /\ LaterIdle
    /\ installed \in SUBSET {"shap", "xgboost"}
    /\ model_type \in ModelTypes
    /\ random_state \in Seeds
    /\ \E n \in 0..MaxTrainRows :
        \/ \E s \in NonDecr(Len(TrainRecencies), n) :
            df = [columns |-> {"Recency"}, rows |-> [i \in 1..n |-> UnlabelledRow(s[i])]]
        \/ \E s \in NonDecr(Len(TrainRecencies) * Len(Labels), n) :
            df = [columns |-> {"Recency", "Churn"},
                  rows |-> [i \in 1..n |-> LabelledRow(s[i])]]
    /\ pc = "import"
    /\ TrainLocalsUnset

Raise(type, at) ==
    /\ pc' = "raised"
    /\ error' = [type |-> type, at |-> at]

\* importing src.modeling: "import shap" is unguarded, "import xgboost" sets _HAS_XGB
ImportModeling ==
    /\ pc = "import"
    /\ IF "shap" \notin installed
       THEN Raise("ModuleNotFoundError", "import") /\ UNCHANGED has_xgb
       ELSE has_xgb' = ("xgboost" \in installed) /\ pc' = "call" /\ UNCHANGED error
    /\ UNCHANGED <<installed, df, model_type, random_state, X, y, splits, part, chosen,
                   model, proba, metrics, log, bundle>>
    /\ UNCHANGED <<etlVars, cohortVars>>
    /\ UNCHANGED laterVars

\* X, y = _prepare_supervised(df, label_col): works on a copy of df
PrepareSupervised ==
    /\ pc = "call"
    /\ IF CastRaises(df)
       THEN Raise("ValueError", "prepare") /\ UNCHANGED <<X, y>>
       ELSE X' = FeaturesOf(df) /\ y' = LabelsOf(df) /\ pc' = "validate" /\ UNCHANGED error
    /\ UNCHANGED <<installed, has_xgb, df, model_type, random_state, splits, part, chosen,
                   model, proba, metrics, log, bundle>>
    /\ UNCHANGED <<etlVars, cohortVars>>
    /\ UNCHANGED laterVars

\* if y.nunique() < 2: raise ValueError
Validate ==
    /\ pc = "validate"
    /\ IF TooFewClasses(y)
       THEN Raise("ValueError", "validate")
       ELSE pc' = "split" /\ UNCHANGED error
    /\ UNCHANGED <<installed, has_xgb, df, model_type, random_state, X, y, splits, part,
                   chosen, model, proba, metrics, log, bundle>>
    /\ UNCHANGED <<etlVars, cohortVars>>
    /\ UNCHANGED laterVars

SplitCall(stratify) ==
    [stratify |-> stratify, test_size |-> Fin(1, TestSizeInverse), random_state |-> random_state]

\* train_test_split(..., stratify=y) succeeds
SplitStratified ==
    /\ pc = "split"
    /\ ~StratifyRaises(y)
    /\ splits' = <<SplitCall(TRUE)>>
    /\ \E T \in StratifiedTests(y) : part' = Partition(X, y, T)
    /\ pc' = "choose"
    /\ UNCHANGED <<installed, has_xgb, df, model_type, random_state, X, y, chosen, model,
                   proba, metrics, log, bundle, error>>
    /\ UNCHANGED <<etlVars, cohortVars>>
    /\ UNCHANGED laterVars

\* train_test_split(..., stratify=y) raises ValueError: the split is made again
\* without stratify
SplitFallback ==
    /\ pc = "split"
    /\ StratifyRaises(y)
    /\ splits' = <<SplitCall(TRUE), SplitCall(FALSE)>>
    /\ \E T \in ShuffledTests(y) : part' = Partition(X, y, T)
    /\ pc' = "choose"
    /\ UNCHANGED <<installed, has_xgb, df, model_type, random_state, X, y, chosen, model,
                   proba, metrics, log, bundle, error>>
    /\ UNCHANGED <<etlVars, cohortVars>>
    /\ UNCHANGED laterVars

\* "Choose model": resolve the kind and build the classifier
ChooseModel ==
    /\ pc = "choose"
    /\ chosen' = Resolve(model_type, has_xgb)
    /\ IF ConstructRaises(chosen', has_xgb)
       THEN Raise("AttributeError", "construct") /\ UNCHANGED model
       ELSE /\ model' = [class |-> Construct(chosen'), fitted |-> FALSE]
            /\ pc' = "fit"
            /\ UNCHANGED error
    /\ UNCHANGED <<installed, has_xgb, df, model_type, random_state, X, y, splits, part,
                   proba, metrics, log, bundle>>
    /\ UNCHANGED <<etlVars, cohortVars>>
    /\ UNCHANGED laterVars

\* model.fit(X_train, y_train)
Fit ==
    /\ pc = "fit"
    /\ IF FitRaises(model.class, part.y_train)
       THEN Raise("ValueError", "fit") /\ UNCHANGED model
       ELSE model' = [model EXCEPT !.fitted = TRUE] /\ pc' = "evaluate" /\ UNCHANGED error
    /\ UNCHANGED <<installed, has_xgb, df, model_type, random_state, X, y, splits, part,
                   chosen, proba, metrics, log, bundle>>
    /\ UNCHANGED <<etlVars, cohortVars>>
    /\ UNCHANGED laterVars

\* proba, preds and the metrics record; on a test partition with one class
\* roc_auc_score raises ValueError or, with a warning, returns NaN, depending on
\* the scikit-learn release
Evaluate ==
    /\ pc = "evaluate"
    /\ \E p \in [1..Len(part.y_test) -> ProbaValues] :
        /\ proba' = p
        /\ IF Cardinality(Values(part.y_test)) = 2
           THEN /\ metrics' = MetricsOf(RocAuc(part.y_test, p), part.y_test, p, chosen)
                /\ pc' = "explain"
                /\ UNCHANGED error
           ELSE \/ Raise("ValueError", "evaluate") /\ UNCHANGED metrics
                \/ /\ metrics' = MetricsOf(NaN, part.y_test, p, chosen)
                   /\ pc' = "explain"
                   /\ UNCHANGED error
    /\ UNCHANGED <<installed, has_xgb, df, model_type, random_state, X, y, splits, part,
                   chosen, model, log, bundle>>
    /\ UNCHANGED <<etlVars, cohortVars>>
    /\ UNCHANGED laterVars

\* the SHAP block and the return: any exception inside the try is caught and printed
ExplainAndReturn ==
    /\ pc = "explain"
    /\ \E ok \in BOOLEAN :
        /\ log' = IF ok THEN log ELSE Append(log, "[train_churn_model] SHAP creation skipped")
        /\ bundle' =
            [model |-> model,
             metrics |-> metrics,
             X_test |-> part.X_test,
             y_test |-> part.y_test,
             proba_test |-> proba,
             explainer |->
                 IF ok THEN [model |-> model.class,
                             background |-> BackgroundSize(Len(part.X_train))]
                 ELSE None,
             shap_values |-> IF ok THEN [rows |-> Len(part.X_test)] ELSE None]
    /\ pc' = "returned"
    /\ UNCHANGED <<installed, has_xgb, df, model_type, random_state, X, y, splits, part,
                   chosen, model, proba, metrics, error>>
    /\ UNCHANGED <<etlVars, cohortVars>>
    /\ UNCHANGED laterVars

NextTrain ==
    \/ ImportModeling
    \/ PrepareSupervised
    \/ Validate
    \/ SplitStratified
    \/ SplitFallback
    \/ ChooseModel
    \/ Fit
    \/ Evaluate
    \/ ExplainAndReturn

SpecTrain == InitTrain /\ [][NextTrain]_vars


\* the classes of the outcome label of a table: the label column as cast to
\* integers (missing labels aside), or the weak label
OutcomeClasses(table) ==
    IF "Churn" \in table.columns
    THEN {Trunc(table.rows[i].Churn) :
            i \in {j \in 1..Len(table.rows) : IsFinite(table.rows[j].Churn)}}
    ELSE {WeakLabel(table.rows[i]) : i \in 1..Len(table.rows)}

\* C6: on a table whose outcome label has fewer than two classes the call raises
\* ValueError before any split or fit and returns no bundle
C6_FewClassesRaiseBeforeSplit ==
    Cardinality(OutcomeClasses(df)) < 2 =>
        /\ pc \in {"import", "call", "validate", "raised"}
        /\ splits = <<>>
        /\ part = None
        /\ model = None
        /\ bundle = None
        /\ (pc = "raised" /\ error.at # "import") => error.type = "ValueError"

\* a table of two or more rows without a label column, all with the same weak
\* label, was refused by the validation
C6_Witness ==
    /\ pc = "raised"
    /\ error = [type |-> "ValueError", at |-> "validate"]
    /\ "Churn" \notin df.columns
    /\ Len(df.rows) >= 2
    /\ splits = <<>>

\* the labels are prepared: the call got past _prepare_supervised
Prepared == pc \notin {"idle", "import", "call"} /\ ~(pc = "raised" /\ error.at \in {"import", "prepare"})

\* C7 as stated: the weak label is 1 iff Recency >= 180 when the table has no label
\* column, and a label column is used as given
C7_LabelAsGiven ==
    Prepared =>
        \A i \in 1..Len(df.rows) :
            IF "Churn" \in df.columns THEN F(y[i]) = df.rows[i].Churn
            ELSE y[i] = (IF FGe(df.rows[i].Recency, F(WeakLabelDays)) THEN 1 ELSE 0)

C7_LabelsCastOrWeak ==
    Prepared =>
        /\ Len(y) = Len(df.rows)
        /\ \A i \in 1..Len(df.rows) :
            IF "Churn" \in df.columns THEN y[i] = Trunc(df.rows[i].Churn)
            ELSE y[i] = (IF FGe(df.rows[i].Recency, F(WeakLabelDays)) THEN 1 ELSE 0)

\* C7 amended: without a label column each label is 1 iff Recency >= 180, else 0;
\* with a label column each label is the given value cast to an integer
\* (truncated toward zero) and no weak label is derived; the caller's table is
\* never changed
C7_LabelsCastOrWeakFrame == []C7_LabelsCastOrWeak /\ [][df' = df]_vars

\* weak labels on both sides of the threshold have been derived
C7_Witness ==
    /\ pc = "validate"
    /\ "Churn" \notin df.columns
    /\ \E i, j \in 1..Len(df.rows) :
        /\ df.rows[i].Recency = F(180) /\ y[i] = 1
        /\ df.rows[j].Recency = F(179) /\ y[j] = 0

\* C8: a failed stratified split is made again without stratify, same test size
\* and seed, and a table with two label classes then gets a bundle: no error
\* reaches the caller past the validation (a missing classifier backend aside)
C8_FallbackSplitReturnsBundle ==
    /\ Len(splits) = 2 =>
        /\ splits[1] = SplitCall(TRUE)
        /\ splits[2] = SplitCall(FALSE)
    /\ pc = "raised" => error.at \in {"import", "prepare", "validate", "construct"}

\* the kind a classifier class goes by
KindOfClass(class) == IF class = "XGBClassifier" THEN "xgboost" ELSE "logistic"

\* C9: "auto" resolves to the boosted trees iff the backend is installed, and the
\* model kind recorded in the metrics names the classifier in the bundle
C9_RecordedKindIsFittedKind ==
    /\ (model_type = "auto" /\ chosen # "") =>
        chosen = (IF "xgboost" \in installed THEN "xgboost" ELSE "logistic")
    /\ pc = "returned" =>
        bundle.metrics.model_type = KindOfClass(bundle.model.class)

\* C10: no failure of the explainability step, a missing backend included, fails
\* the call; the bundle then has the metrics of the test partition and neither
\* explainer nor attributions
C10_ExplainFailureNeverFailsTrain ==
    /\ "shap" \notin installed => pc # "raised"
    /\ pc = "raised" => error.at # "explain"
    /\ (pc = "returned" /\ log # <<>>) =>
        /\ bundle.explainer = None
        /\ bundle.shap_values = None
        /\ bundle.metrics = metrics
        /\ bundle.metrics.accuracy = Accuracy(bundle.y_test, Preds(bundle.proba_test))

(***************************************************************************)
(* Inputs of segment_rfm.  The tables are those whose columns have a       *)
(* standard deviation that is a ratio of integers, so that the scaled      *)
(* matrix, the distances and the scores are computed exactly.              *)
(***************************************************************************)
MaxSegRows == 5

MaxK == 5

SegRow(r, f, m) == [Recency |-> r, Frequency |-> f, Monetary |-> m]

SegRows ==
    <<SegRow(F(0), F(8), NaN), SegRow(F(1), F(2), F(4)), SegRow(F(4), F(2), F(1)),
      SegRow(F(9), F(0), F(1))>>

SegSeeds == {42}

RationalScales(rows) ==
    \A c \in RFM : HasRoot(Variance(Column(RfmFeatures(rows), c)))

InitSegment ==
    /\ EtlIdle
    /\ CohortIdle
    /\ TrainIdle
    /\ \E n \in 0..MaxSegRows : \E s \in NonDecr(Len(SegRows), n) :
        /\ n > 0 => RationalScales([i \in 1..n |-> SegRows[s[i]]])
        /\ seg_df = [i \in 1..n |-> SegRows[s[i]]]
    /\ seg_k \in 1..MaxK
    /\ seg_seed \in SegSeeds
    /\ seg_pc = "call"
    /\ scaled = <<>>
    /\ km = None
    /\ label_map = <<>>
    /\ seg_work = <<>>
    /\ seg_error = None
    /\ PredictIdle
    /\ DashIdle
    /\ RepeatIdle

SegRaise(type, at) ==
    /\ seg_error' = [type |-> type, at |-> at]
    /\ seg_pc' = "raised"

\* features = ...fillna(0.0); X = scaler.fit_transform(features)
ScaleFeatures ==
    /\ seg_pc = "call"
    /\ IF ScalerRaises(RfmFeatures(seg_df))
       THEN SegRaise("ValueError", "scale") /\ UNCHANGED scaled
       ELSE /\ scaled' = FitTransform(RfmFeatures(seg_df))
            /\ seg_pc' = "scaled"
            /\ UNCHANGED seg_error
    /\ UNCHANGED <<seg_df, seg_k, seg_seed, km, label_map, seg_work>>
    /\ UNCHANGED <<etlVars, cohortVars, trainVars, predictVars, dashVars, repeatVars>>

\* clusters = km.fit_predict(X)
KMeansFit ==
    /\ seg_pc = "scaled"
    /\ IF KMeansRaises(scaled, seg_k)
       THEN SegRaise("ValueError", "fit") /\ UNCHANGED km
       ELSE /\ km' \in KMeansFits(scaled, seg_k)
            /\ seg_pc' = "fitted"
            /\ UNCHANGED seg_error
    /\ UNCHANGED <<seg_df, seg_k, seg_seed, scaled, label_map, seg_work>>
    /\ UNCHANGED <<etlVars, cohortVars, trainVars, predictVars, dashVars, repeatVars>>

\* the centroid scores, the ranks, label_map, the two new columns and the return
LabelSegments ==
    /\ seg_pc = "fitted"
    /\ label_map' = LabelMap(km.cluster_centers, seg_k)
    /\ seg_work' = SegmentTable(seg_df, km.labels, label_map')
    /\ seg_pc' = "returned"
    /\ UNCHANGED <<seg_df, seg_k, seg_seed, scaled, km, seg_error>>
    /\ UNCHANGED <<etlVars, cohortVars, trainVars, predictVars, dashVars, repeatVars>>

NextSegment ==
    \/ ScaleFeatures
    \/ KMeansFit
    \/ LabelSegments

SpecSegment == InitSegment /\ [][NextSegment]_vars

\* the rows of a cluster and their means over the filled features
MembersOf(c) == {i \in 1..Len(seg_df) : km.labels[i] = c}

MeanOver(c, col(_)) ==
    LET rows == Take(RfmFeatures(seg_df), MembersOf(c), 1)
    IN  Mean([i \in 1..Len(rows) |-> col(rows[i])])

MeanRecency(c) == LET col(r) == r.R IN MeanOver(c, col)

MeanFrequencyMonetary(c) == LET col(r) == FAdd(r.F, r.M) IN MeanOver(c, col)

LowestRecencyHighestValue(c) ==
    /\ MembersOf(c) # {}
    /\ \A e \in (0..(seg_k - 1)) \ {c} :
        MembersOf(e) # {} =>
            /\ FLt(MeanRecency(c), MeanRecency(e))
            /\ FLt(MeanFrequencyMonetary(e), MeanFrequencyMonetary(c))

\* C12: a cluster with both the lowest mean Recency and the highest mean
\* Frequency+Monetary of all clusters is labelled "Champions"
C12_BestClusterIsChampions ==
    seg_pc = "returned" =>
        \A c \in 0..(seg_k - 1) :
            LowestRecencyHighestValue(c) => label_map[c] = SEGMENT_LABELS[1]

DistinctVectors == {RfmFeatures(seg_df)[i] : i \in 1..Len(seg_df)}

\* C13: with fewer than k distinct feature vectors the call does not raise, and the
\* table it returns gives every record a SegmentID in 0..k-1 and a Segment label
C13_FewDistinctStillSegments ==
    Cardinality(DistinctVectors) < seg_k =>
        /\ seg_pc # "raised"
        /\ seg_pc = "returned" =>
            /\ Len(seg_work) = Len(seg_df)
            /\ \A i \in 1..Len(seg_work) :
                /\ seg_work[i].SegmentID \in 0..(seg_k - 1)
                /\ seg_work[i].Segment # "NaN"

\* the number of clusters ranked before c: higher score, or equal score and lower index
RankOf(c) ==
    Cardinality({e \in 0..(seg_k - 1) :
        \/ FLt(Score(km.cluster_centers[c]), Score(km.cluster_centers[e]))
        \/ Score(km.cluster_centers[e]) = Score(km.cluster_centers[c]) /\ e < c})

\* C16: the label map is a bijection from the cluster indices 0..k-1 onto the ranks
\* 0..k-1: the cluster with the r-th highest centroid score, ties to the lower
\* index, gets the r-th vocabulary label for r < 4 and "Segment-r" from there on;
\* no two clusters share a label and every record has a Segment
C16_LabelMapIsRankBijection ==
    seg_pc = "returned" =>
        /\ DOMAIN label_map = 0..(seg_k - 1)
        /\ {RankOf(c) : c \in 0..(seg_k - 1)} = 0..(seg_k - 1)
        /\ \A c \in 0..(seg_k - 1) :
            label_map[c] = (IF RankOf(c) < 4 THEN SEGMENT_LABELS[RankOf(c) + 1]
                            ELSE "Segment-" \o ToString(RankOf(c)))
        /\ \A c, e \in 0..(seg_k - 1) : c # e => label_map[c] # label_map[e]
        /\ \A i \in 1..Len(seg_work) :
            /\ seg_work[i].Segment = label_map[seg_work[i].SegmentID]
            /\ seg_work[i].Segment # "NaN"

\* five clusters were labelled, two of them with equal scores, one "Segment-4"
C16_Witness ==
    /\ seg_pc = "returned"
    /\ seg_k = 5
    /\ \E c \in 0..4 : label_map[c] = "Segment-4"
    /\ \E c, e \in 0..4 :
        c # e /\ Score(km.cluster_centers[c]) = Score(km.cluster_centers[e])

(***************************************************************************)
(* predict_churn_probability (src/src/modeling.py).                        *)
(***************************************************************************)
MaxPredictRows == 2

PredictRecencies == <<NaN, F(0), F(180), Inf>>

\* the probabilities a fitted classifier can give
PredictProbas == {F(0), Fin(1, 4), F(1)}

\* the values a Churn_Probability column already in the table can hold
PriorProbas == <<NaN, Fin(1, 2)>>

PredictColumns == {<<"Recency">>, <<"Churn_Probability", "Recency">>, <<"Churn_Probability">>}

ColumnSet(columns) == {columns[i] : i \in 1..Len(columns)}

NumPredictRows == Len(PredictRecencies) * Len(PriorProbas)

PredictRow(j) ==
    [Recency |-> PredictRecencies[((j - 1) % Len(PredictRecencies)) + 1],
     Churn_Probability |-> PriorProbas[((j - 1) \div Len(PredictRecencies)) + 1]]

\* a row of the file restricted to the columns of the table
Restrict(r, columns) == [c \in ColumnSet(columns) |-> r[c]]

InitPredict ==
    /\ EtlIdle
    /\ CohortIdle
    /\ TrainIdle
    /\ SegIdle
    /\ DashIdle
    /\ RepeatIdle
    /\ pred_model \in [{F(0), F(180)} -> PredictProbas]
    /\ \E columns \in PredictColumns : \E n \in 0..MaxPredictRows :
        \E s \in NonDecr(NumPredictRows, n) :
            /\ \A i \in 1..n : \A j \in 1..NumPredictRows :
                    Restrict(PredictRow(j), columns) = Restrict(PredictRow(s[i]), columns)
                        => s[i] <= j
            /\ pred_df = [columns |-> columns,
                          rows |-> [i \in 1..n |-> Restrict(PredictRow(s[i]), columns)]]
    /\ pred_pc = "call"
    /\ df_out = NoTable
    /\ pred_error = None

\* df[FEATURES_DEFAULT] raises KeyError when a feature column is missing
FeaturesMissing(table) == "Recency" \notin ColumnSet(table.columns)

\* X = df[FEATURES_DEFAULT].fillna(0.0)
PredictFeatures(table) ==
    [i \in 1..Len(table.rows) |-> FillNa(table.rows[i].Recency, F(0))]

\* predict_proba refuses infinite features
PredictProbaRaises(features) == \E i \in 1..Len(features) : ~IsFinite(features[i])

\* the columns after an assignment to column c, which every time adds a column
WithColumnAdded(columns, c) == Append(columns, c)

\* the columns after an assignment to column c: a new column goes last, an existing
\* one keeps its place
WithColumn(columns, c) == IF c \in ColumnSet(columns) THEN columns ELSE Append(columns, c)

\* df_out = df.copy(); df_out["Churn_Probability"] = model.predict_proba(X)[:, 1]
ScoredTable(table, fitted) ==
    [columns |-> WithColumn(table.columns, "Churn_Probability"),
     rows |-> [i \in 1..Len(table.rows) |->
                 [c \in ColumnSet(table.columns) \cup {"Churn_Probability"} |->
                     IF c = "Churn_Probability" THEN fitted[PredictFeatures(table)[i]]
                     ELSE table.rows[i][c]]]]

PredictChurnProbability ==
    /\ pred_pc = "call"
    /\ IF FeaturesMissing(pred_df)
       THEN /\ pred_error' = [type |-> "KeyError", at |-> "features"]
            /\ pred_pc' = "raised"
            /\ UNCHANGED df_out
       ELSE IF PredictProbaRaises(PredictFeatures(pred_df))
       THEN /\ pred_error' = [type |-> "ValueError", at |-> "predict_proba"]
            /\ pred_pc' = "raised"
            /\ UNCHANGED df_out
       ELSE /\ df_out' = ScoredTable(pred_df, pred_model)
            /\ pred_pc' = "returned"
            /\ UNCHANGED pred_error
    /\ UNCHANGED <<pred_model, pred_df>>
    /\ UNCHANGED <<etlVars, cohortVars, trainVars, segVars, dashVars, repeatVars>>

NextPredict == PredictChurnProbability

SpecPredict == InitPredict /\ [][NextPredict]_vars

InUnitInterval(p) == FGe(p, F(0)) /\ FGe(F(1), p)

\* C11 as stated: the returned table has the rows and the columns of the caller's
\* table, all unchanged, and one appended Churn_Probability column with values
\* in [0,1]
C11_AppendsProbabilityColumn ==
    pred_pc = "returned" =>
        /\ df_out.columns = Append(pred_df.columns, "Churn_Probability")
        /\ Len(df_out.rows) = Len(pred_df.rows)
        /\ \A i \in 1..Len(pred_df.rows) :
            /\ \A c \in ColumnSet(pred_df.columns) : df_out.rows[i][c] = pred_df.rows[i][c]
            /\ InUnitInterval(df_out.rows[i].Churn_Probability)

C11_ProbabilityColumnSet ==
    pred_pc = "returned" =>
        /\ df_out.columns =
            (IF "Churn_Probability" \in ColumnSet(pred_df.columns) THEN pred_df.columns
             ELSE Append(pred_df.columns, "Churn_Probability"))
        /\ Len(df_out.rows) = Len(pred_df.rows)
        /\ \A i \in 1..Len(pred_df.rows) :
            /\ \A c \in ColumnSet(pred_df.columns) \ {"Churn_Probability"} :
                    df_out.rows[i][c] = pred_df.rows[i][c]
            /\ InUnitInterval(df_out.rows[i].Churn_Probability)

\* C11 amended: the caller's table never changes; the returned table has the same
\* rows, every original column other than Churn_Probability unchanged, and a
\* Churn_Probability column with values in [0,1], appended when the caller's table
\* has none and overwriting the one it has otherwise
C11_ProbabilityColumnSetFrame == []C11_ProbabilityColumnSet /\ [][pred_df' = pred_df]_vars

\* a table that already had a Churn_Probability column was scored
C11_Witness ==
    /\ pred_pc = "returned"
    /\ Len(pred_df.rows) > 0
    /\ "Churn_Probability" \in ColumnSet(pred_df.columns)
    /\ df_out.rows[1].Churn_Probability # pred_df.rows[1].Churn_Probability
    /\ df_out.rows[1].Recency = pred_df.rows[1].Recency

(***************************************************************************)
(* The telco schema through load_and_enrich and train_churn_model, as      *)
(* src/main.py chains them.                                                *)
(***************************************************************************)
MaxTelcoRows == 5

\* random_state: int = 42
DefaultSeed == 42

TelcoRow(tenure, churn) ==
    [tenure |-> tenure, Churn |-> churn, MonthlyCharges |-> F(70), TotalCharges |-> NaN]

TelcoRows ==
    <<TelcoRow(F(0), "Yes"), TelcoRow(F(3), "Yes"), TelcoRow(F(3), "No"),
      TelcoRow(F(0), ""), TelcoRow(NaN, "No")>>

TelcoColSets ==
    {{"customerID", "tenure"},
     {"customerID", "tenure", "Churn"},
     {"customerID", "tenure", "Churn", "MonthlyCharges", "TotalCharges"}}

\* a cell of a column the file lacks reads as missing; without a Churn column the
\* rows are told apart by their tenure
TelcoBlank(s, cols) ==
    \A i \in 1..Len(s) :
        "Churn" \notin cols =>
            \A j \in 1..Len(TelcoRows) : TelcoRows[j].tenure = TelcoRows[s[i]].tenure => s[i] <= j

InitTelco ==
    /\ rawCols \in TelcoColSets
    /\ \E n \in 0..MaxTelcoRows : \E s \in NonDecr(Len(TelcoRows), n) :
        /\ TelcoBlank(s, rawCols)
        /\ raw = [i \in 1..n |-> TelcoRows[s[i]]]
    /\ today = 0
    /\ enriched = <<>>
    /\ etl_pc = "loaded"
    /\ CohortIdle
    /\ TrainIdle
    /\ LaterIdle

\* load_and_enrich(path, today) on a telco file
LoadAndEnrichTelco ==
    /\ etl_pc = "loaded"
    /\ TelcoSchema(rawCols)
    /\ \E t \in Todays :
        /\ today' = t
        /\ enriched' = EnrichTelco(t, raw, rawCols)
    /\ etl_pc' = "done"
    /\ UNCHANGED <<raw, rawCols, cohortVars, trainVars>>
    /\ UNCHANGED laterVars

\* the table handed to train_churn_model: the features, and Churn if the file had it
TrainTable(rows, cols) ==
    [columns |-> {"Recency"} \cup (cols \cap {"Churn"}),
     rows |-> [i \in 1..Len(rows) |->
                 IF "Churn" \in cols
                 THEN [Recency |-> rows[i].Recency, Churn |-> F(rows[i].Churn)]
                 ELSE [Recency |-> rows[i].Recency]]]

\* train_churn_model(df, model_type) on the enriched table
TrainOnEnriched ==
    /\ etl_pc = "done"
    /\ pc = "idle"
    /\ installed' \in SUBSET {"shap", "xgboost"}
    /\ model_type' \in ModelTypes
    /\ random_state' = DefaultSeed
    /\ df' = TrainTable(enriched, rawCols)
    /\ pc' = "import"
    /\ UNCHANGED <<has_xgb, X, y, splits, part, chosen, model, proba, metrics, log, bundle,
                   error>>
    /\ UNCHANGED <<etlVars, cohortVars>>
    /\ UNCHANGED laterVars

NextTelco ==
    \/ LoadAndEnrichTelco
    \/ TrainOnEnriched
    \/ NextTrain

SpecTelco == InitTelco /\ [][NextTelco]_vars

\* whole months of tenure of the i-th record of the file
TenureMonths(i) == raw[i].tenure.n

\* C15: for a telco record with a tenure of T >= 0 months, SignupDate is the
\* evaluation date minus 30*T days; LastPurchaseDate is SignupDate plus
\* 30*max(T-1,0) days when the label is "Yes" and the evaluation date otherwise;
\* LastLoginDate = LastPurchaseDate; Churn is 1 for "Yes" and 0 for anything else;
\* so SignupDate <= LastPurchaseDate <= evaluation date
C15_TelcoDatesSynthesized ==
    etl_pc = "done" =>
        \A i \in 1..Len(raw) :
            (IsFinite(raw[i].tenure) /\ TenureMonths(i) >= 0) =>
                LET signup == today - 30 * TenureMonths(i)
                    churned == "Churn" \in rawCols /\ raw[i].Churn = "Yes"
                    purchase == IF churned
                                THEN signup + 30 * (IF TenureMonths(i) > 1
                                                    THEN TenureMonths(i) - 1 ELSE 0)
                                ELSE today
                IN  /\ enriched[i].SignupDate = Date(signup)
                    /\ enriched[i].LastPurchaseDate = Date(purchase)
                    /\ enriched[i].LastLoginDate = enriched[i].LastPurchaseDate
                    /\ "Churn" \in rawCols =>
                            enriched[i].Churn = (IF raw[i].Churn = "Yes" THEN 1 ELSE 0)
                    /\ signup <= purchase
                    /\ purchase <= today

\* a churned record of three months and a record with an unknown label were enriched
C15_Witness ==
    /\ etl_pc = "done"
    /\ "Churn" \in rawCols
    /\ \E i, j \in 1..Len(raw) :
        /\ raw[i].Churn = "Yes" /\ raw[i].tenure = F(3)
        /\ enriched[i].LastPurchaseDate = Date(today - 30)
        /\ raw[j].Churn = "" /\ enriched[j].Churn = 0
        /\ enriched[j].LastPurchaseDate = Date(today)

\* C18: a telco file without a Churn column gets Recency = 0 on every record, so
\* every weak label is 0 and a call of train ends with the validation error of
\* fewer than two classes: it never gets to the split, whatever the tenures and
\* the model kind
C18_TelcoWithoutLabelNeverTrains ==
    "Churn" \notin rawCols =>
        /\ etl_pc = "done" => \A i \in 1..Len(enriched) : enriched[i].Recency = F(0)
        /\ Len(y) > 0 => \A i \in 1..Len(y) : y[i] = 0
        /\ pc \in {"idle", "import", "call", "validate", "raised"}
        /\ bundle = None
        /\ (pc = "raised" /\ error.at # "import") =>
                error = [type |-> "ValueError", at |-> "validate"]

\* train refused an enriched telco file of several tenures that has no Churn column
C18_Witness ==
    /\ "Churn" \notin rawCols
    /\ pc = "raised"
    /\ error = [type |-> "ValueError", at |-> "validate"]
    /\ model_type = "xgboost"
    /\ \E i, j \in 1..Len(raw) : raw[i].tenure = F(3) /\ raw[j].tenure = NaN

(***************************************************************************)
(* src/app/dashboard.py: the script reruns on every widget change; its     *)
(* get_models is memoized by st.cache_data on its argument, the filtered   *)
(* table.  Tables are named by the filter selection that produces them.    *)
(***************************************************************************)
\* the filtered tables the sidebar can produce
FilteredTables == {"all", "Champions", "At Risk", "2024"}

\* the filtered tables with fewer than min_rows rows
SmallTables == {"At Risk"}

\* the options of the model type selectbox
ModelTypeOptions == {"auto", "logistic", "xgboost"}

InitDashboard ==
    /\ EtlIdle
    /\ CohortIdle
    /\ TrainIdle
    /\ SegIdle
    /\ PredictIdle
    /\ RepeatIdle
    /\ xgb_available \in BOOLEAN
    /\ session_state = ""
    /\ df_f = ""
    /\ models_cache = [t \in FilteredTables |-> None]
    /\ shown = None
    /\ dash_error = None

\* the body of get_models: train on the table, or on the full data when the table
\* is small, with the model type read from the session state
GetModelsBody(table, kind, xgb) ==
    [model |-> [class |-> Construct(Resolve(kind, xgb)), fitted |-> TRUE],
     metrics |-> [model_type |-> Resolve(kind, xgb)],
     trained_on |-> IF table \in SmallTables THEN "all" ELSE table]

\* one run of main() after the user set the filters and the model type:
\* _apply_filters stores the model type, get_models answers from its cache when
\* it has the table and runs its body and stores the result otherwise
Rerun ==
    /\ \E table \in FilteredTables : \E option \in ModelTypeOptions :
        /\ session_state' = option
        /\ df_f' = table
        /\ IF models_cache[table] # None
           THEN /\ shown' = models_cache[table]
                /\ dash_error' = None
                /\ UNCHANGED models_cache
           ELSE IF ConstructRaises(Resolve(option, xgb_available), xgb_available)
           THEN /\ shown' = None
                /\ dash_error' = [type |-> "AttributeError", at |-> "construct"]
                /\ UNCHANGED models_cache
           ELSE /\ shown' = GetModelsBody(table, option, xgb_available)
                /\ models_cache' =
                       [models_cache EXCEPT
                           ![table] = GetModelsBody(table, option, xgb_available)]
                /\ dash_error' = None
    /\ UNCHANGED xgb_available
    /\ UNCHANGED <<etlVars, cohortVars, trainVars, segVars, predictVars, repeatVars>>

NextDashboard == Rerun

SpecDashboard == InitDashboard /\ [][NextDashboard]_vars

\* C17: the bundle the dashboard gets from get_models for the current filtered
\* table was trained with the model type now in the session state: its recorded
\* model kind is the resolution of that type
C17_BundleOfCurrentModelType ==
    shown # None => shown.metrics.model_type = Resolve(session_state, xgb_available)

(***************************************************************************)
(* src/src/etl.py: load_and_enrich called twice by one caller with the     *)
(* same file and the same today argument, while the clock runs.            *)
(***************************************************************************)
\* today = today or datetime.utcnow()
EvaluationDay(arg, now) == IF arg = None THEN now ELSE arg.day

InitRepeat ==
    /\ rawCols \in RawColSets
    /\ \E n \in 0..MaxEtlRows : \E s \in NonDecr(NumRawRows, n) :
        /\ \A i \in 1..n : Blank(RawRow(s[i]), rawCols)
        /\ raw = [i \in 1..n |-> RawRow(s[i])]
    /\ today = 0
    /\ enriched = <<>>
    /\ etl_pc = "loaded"
    /\ CohortIdle
    /\ TrainIdle
    /\ SegIdle
    /\ PredictIdle
    /\ DashIdle
    /\ today_arg \in {None} \cup {Date(t) : t \in Todays}
    /\ utcnow \in Todays
    /\ calls = 0
    /\ first_out = <<>>
    /\ second_out = <<>>

\* load_and_enrich(path, today) on the same file with the same argument
CallLoadAndEnrich ==
    /\ calls < 2
    /\ calls' = calls + 1
    /\ today' = EvaluationDay(today_arg, utcnow)
    /\ enriched' = Enrich(EvaluationDay(today_arg, utcnow), raw, rawCols)
    /\ etl_pc' = "done"
    /\ IF calls = 0
       THEN /\ first_out' = Enrich(EvaluationDay(today_arg, utcnow), raw, rawCols)
            /\ UNCHANGED second_out
       ELSE /\ second_out' = Enrich(EvaluationDay(today_arg, utcnow), raw, rawCols)
            /\ UNCHANGED first_out
    /\ UNCHANGED <<raw, rawCols, today_arg, utcnow>>
    /\ UNCHANGED <<cohortVars, trainVars, segVars, predictVars, dashVars>>

\* time passes between two calls
ClockAdvances ==
    /\ \E t \in Todays :
        /\ t > utcnow
        /\ utcnow' = t
    /\ UNCHANGED <<etlVars, today_arg, calls, first_out, second_out>>
    /\ UNCHANGED <<cohortVars, trainVars, segVars, predictVars, dashVars>>

NextRepeat == CallLoadAndEnrich \/ ClockAdvances

SpecRepeat == InitRepeat /\ [][NextRepeat]_vars

\* C14: two calls of load_and_enrich with the same file and the same today
\* argument, given or omitted, return identical tables
C14_RepeatedEnrichIdentical ==
    calls = 2 => first_out = second_out

====
